---- MODULE Spec2Model ----
(***************************************************************************)
(* Model of agents/flight-finder/flight_search.py: the FlightSearchParams  *)
(* validators, price extraction and parsing, result parsing and ranking,   *)
(* the single-site search, the three-site comparison and the CLI entry     *)
(* point.                                                                  *)
(*                                                                         *)
(* A Python str is a sequence of one-character strings.  Optional values   *)
(* that are absent are the value None.                                     *)
(***************************************************************************)
EXTENDS Integers, Sequences, FiniteSets, TLC

VARIABLES
    pc,          \* control location of the run
    argv,        \* sys.argv[1:], or the arguments of the operation under study
    api_key,     \* whether BRAVE_API_KEY is available
    today,       \* datetime.now().date(), as a day number
    upstream,    \* what the search API does with the request in flight
    params,      \* the FlightSearchParams built by the caller
    idx,         \* loop index i of search_all_sites
    log,         \* requests issued and delays taken, in order
    in_flight,   \* number of HTTP requests awaiting their answer
    max_flight,  \* the largest value in_flight has had
    parsed,      \* what _parse_results returned in the last search_flights
    last,        \* what the last search_flights call returned
    all_results, \* all_results of search_all_sites
    result,      \* the value the public operation returned (or raised)
    stdout,      \* what main printed
    exit_code,   \* process exit status
    caller,      \* who called search_flights
    outcomes     \* what search_flights returned in each turn of the loop

vars == <<pc, argv, api_key, today, upstream, params, idx, log, in_flight,
          max_flight, parsed, last, all_results, result, stdout, exit_code,
          caller, outcomes>>

-----------------------------------------------------------------------------
(* Bounds of the model *)

MaxCodeLen == 4
MaxTextLen == 4
MaxHits == 4
MaxSurplus == 1
MaxDescPad == 4

-----------------------------------------------------------------------------
(* Strings *)

None == <<"<None>">>

Lowercase == <<"a","b","c","d","e","f","g","h","i","j","k","l","m",
               "n","o","p","q","r","s","t","u","v","w","x","y","z">>
Uppercase == <<"A","B","C","D","E","F","G","H","I","J","K","L","M",
               "N","O","P","Q","R","S","T","U","V","W","X","Y","Z">>
Digits == {"0","1","2","3","4","5","6","7","8","9"}
Whitespace == {" ", "\t", "\n"}

\* U+017F LATIN SMALL LETTER LONG S, written as a token: str.upper() maps it to "S"
LongS == "u017F"

IsUpperAscii(c) == \E k \in 1..26 : Uppercase[k] = c
IsLowerAscii(c) == \E k \in 1..26 : Lowercase[k] = c
IsAsciiLetter(c) == IsUpperAscii(c) \/ IsLowerAscii(c)

UpperChar(c) ==
    IF IsLowerAscii(c) THEN Uppercase[CHOOSE k \in 1..26 : Lowercase[k] = c]
    ELSE IF c = LongS THEN "S"
    ELSE c

StrUpper(s) == [k \in 1..Len(s) |-> UpperChar(s[k])]

RECURSIVE LStrip(_)
LStrip(s) == IF s # <<>> /\ Head(s) \in Whitespace THEN LStrip(Tail(s)) ELSE s

RECURSIVE RStrip(_)
RStrip(s) ==
    IF s # <<>> /\ s[Len(s)] \in Whitespace
    THEN RStrip(SubSeq(s, 1, Len(s) - 1))
    ELSE s

StrStrip(s) == LStrip(RStrip(s))

Take(s, n) == SubSeq(s, 1, IF Len(s) < n THEN Len(s) ELSE n)

RECURSIVE StringsUpTo(_, _)
StringsUpTo(alphabet, n) ==
    IF n = 0 THEN {<<>>}
    ELSE LET shorter == StringsUpTo(alphabet, n - 1)
         IN  shorter \cup {Append(s, c) : s \in {t \in shorter : Len(t) = n - 1},
                                          c \in alphabet}

-----------------------------------------------------------------------------
(* FlightSearchParams *)

CodeMinLength == 3
CodeMaxLength == 3

\* re.match(r'^[A-Z]{3}$', v): v has been stripped, so the "$" that also
\* matches before a final newline adds nothing
MatchesCodePattern(v) == Len(v) = 3 /\ \A k \in 1..3 : IsUpperAscii(v[k])

\* The field validator is an "after" validator: the Field(min_length,
\* max_length) constraints are applied to the raw string first.
ValidateAirportCode(raw) ==
    IF Len(raw) < CodeMinLength THEN [ok |-> FALSE, error |-> "string_too_short"]
    ELSE IF Len(raw) > CodeMaxLength THEN [ok |-> FALSE, error |-> "string_too_long"]
    ELSE LET v == StrUpper(StrStrip(raw))
         IN  IF MatchesCodePattern(v)
             THEN [ok |-> TRUE, value |-> v]
             ELSE [ok |-> FALSE, error |-> "InvalidAirportCode"]

\* A date argument is [parses |-> whether strptime accepts it, day |-> day number]
ValidateDate(d, now) ==
    IF ~d.parses THEN [ok |-> FALSE, error |-> "InvalidDateFormat"]
    ELSE IF d.day < now THEN [ok |-> FALSE, error |-> "DateInPast"]
    ELSE [ok |-> TRUE, value |-> d]

WebsiteName == {"skyscanner", "google", "booking", "compare"}

NewFlightSearchParams(origin, destination, depart_date, website, now) ==
    LET o == ValidateAirportCode(origin)
        d == ValidateAirportCode(destination)
        t == ValidateDate(depart_date, now)
    IN  IF o.ok /\ d.ok /\ t.ok
        THEN [type |-> "FlightSearchParams", origin |-> o.value,
              destination |-> d.value, depart_date |-> t.value,
              website |-> website]
        ELSE [type |-> "ValidationError",
              errors |-> [origin |-> IF o.ok THEN "" ELSE o.error,
                          destination |-> IF d.ok THEN "" ELSE d.error,
                          depart_date |-> IF t.ok THEN "" ELSE t.error]]

-----------------------------------------------------------------------------
(* Prices *)

Dollar == "$"
\* U+00A3 POUND SIGN and U+20AC EURO SIGN, written as tokens
Pound == "u00A3"
Euro == "u20AC"

\* the pattern list of _extract_price, in its order
PricePatterns == <<Dollar, Pound, Euro>>

DigitSeq == <<"0","1","2","3","4","5","6","7","8","9">>
DigitValue(c) == (CHOOSE k \in 1..10 : DigitSeq[k] = c) - 1

\* [\d,]
IsDigitOrComma(c) == c \in Digits \/ c = ","

\* where  sym[\d,]+  can start
MatchStarts(sym, text) ==
    {p \in 1..Len(text) - 1 : text[p] = sym /\ IsDigitOrComma(text[p + 1])}

\* end of the greedy run [\d,]+ that starts at q
RunEnd(text, q) ==
    CHOOSE e \in q..Len(text) :
        /\ \A k \in q..e : IsDigitOrComma(text[k])
        /\ (e = Len(text) \/ ~IsDigitOrComma(text[e + 1]))

\* (?:\.\d{2})? right after position e
CentsFollow(text, e) ==
    /\ e + 3 <= Len(text)
    /\ text[e + 1] = "."
    /\ text[e + 2] \in Digits
    /\ text[e + 3] \in Digits

\* re.search(sym + r'[\d,]+(?:\.\d{2})?', text): group(0) of the leftmost
\* match, or None
SearchPattern(sym, text) ==
    LET starts == MatchStarts(sym, text)
    IN  IF starts = {} THEN None
        ELSE LET p == CHOOSE q \in starts : \A r \in starts : q <= r
                 e == RunEnd(text, p + 1)
             IN  SubSeq(text, p, IF CentsFollow(text, e) THEN e + 3 ELSE e)

RECURSIVE FirstPatternFrom(_, _)
FirstPatternFrom(k, text) ==
    IF k > Len(PricePatterns) THEN None
    ELSE LET m == SearchPattern(PricePatterns[k], text)
         IN  IF m # None THEN m ELSE FirstPatternFrom(k + 1, text)

ExtractPrice(text) == FirstPatternFrom(1, text)

\* A float is [inf |-> TRUE] for float('inf'), else the decimal m / 10^e
Inf == [inf |-> TRUE, m |-> 0, e |-> 0]

RECURSIVE Pow10(_)
Pow10(n) == IF n = 0 THEN 1 ELSE 10 * Pow10(n - 1)

NumLess(a, b) == ~a.inf /\ (b.inf \/ a.m * Pow10(b.e) < b.m * Pow10(a.e))
NumEq(a, b) == ~NumLess(a, b) /\ ~NumLess(b, a)
NumLeq(a, b) == ~NumLess(b, a)

RECURSIVE RemoveChars(_, _)
RemoveChars(s, chars) ==
    IF s = <<>> THEN <<>>
    ELSE IF Head(s) \in chars THEN RemoveChars(Tail(s), chars)
    ELSE <<Head(s)>> \o RemoveChars(Tail(s), chars)

RECURSIVE DigitsValue(_)
DigitsValue(s) ==
    IF s = <<>> THEN 0
    ELSE 10 * DigitsValue(SubSeq(s, 1, Len(s) - 1)) + DigitValue(s[Len(s)])

\* float(clean) for a string of digits and dots, which is what is left of a
\* price found by _extract_price; a ValueError is reported as Inf
FloatOf(clean) ==
    LET dots == {k \in 1..Len(clean) : clean[k] = "."}
        digs == RemoveChars(clean, {"."})
    IN  IF \/ \E k \in 1..Len(clean) : clean[k] \notin Digits \cup {"."}
           \/ Cardinality(dots) > 1
           \/ digs = <<>>
        THEN Inf
        ELSE [inf |-> FALSE, m |-> DigitsValue(digs),
              e |-> IF dots = {} THEN 0
                    ELSE Len(clean) - (CHOOSE k \in dots : TRUE)]

ParsePrice(price_str) ==
    IF price_str = None \/ price_str = <<>> THEN Inf
    ELSE FloatOf(RemoveChars(price_str, {Dollar, Pound, Euro, ","}))

-----------------------------------------------------------------------------
(* list.sort(key=...) and min(..., key=...) *)

\* the new key goes before the keys that are equal to it
InsertAtBeforeEqual(keys, order, k) ==
    LET later == {p \in 1..Len(order) : NumLeq(keys[k], keys[order[p]])}
    IN  IF later = {} THEN Len(order) + 1
        ELSE CHOOSE p \in later : \A q \in later : p <= q

\* where a new key goes in a sorted list of keys: after every key that is
\* not greater (the sort is stable)
InsertAt(keys, order, k) ==
    LET later == {p \in 1..Len(order) : NumLess(keys[k], keys[order[p]])}
    IN  IF later = {} THEN Len(order) + 1
        ELSE CHOOSE p \in later : \A q \in later : p <= q

RECURSIVE StableOrderUpTo(_, _)
StableOrderUpTo(keys, n) ==
    IF n = 0 THEN <<>>
    ELSE LET order == StableOrderUpTo(keys, n - 1)
             at == InsertAt(keys, order, n)
         IN  SubSeq(order, 1, at - 1) \o <<n>> \o SubSeq(order, at, Len(order))

\* the list is left as it is
StableOrderKept(keys) == [k \in 1..Len(keys) |-> k]

\* the indices of keys in the order list.sort leaves the elements
StableOrder(keys) == StableOrderUpTo(keys, Len(keys))

SortedBy(s, keys) == LET order == StableOrder(keys)
                     IN  [k \in 1..Len(s) |-> s[order[k]]]

\* the running best is replaced by a key that is as small, too
RECURSIVE MinIndexUpToLast(_, _)
MinIndexUpToLast(keys, n) ==
    IF n = 1 THEN 1
    ELSE LET best == MinIndexUpToLast(keys, n - 1)
         IN  IF NumLeq(keys[n], keys[best]) THEN n ELSE best

\* min(): the running best is replaced only by a strictly smaller key
RECURSIVE MinIndexUpTo(_, _)
MinIndexUpTo(keys, n) ==
    IF n = 1 THEN 1
    ELSE LET best == MinIndexUpTo(keys, n - 1)
         IN  IF NumLess(keys[n], keys[best]) THEN n ELSE best

MinIndex(keys) == MinIndexUpTo(keys, Len(keys))

-----------------------------------------------------------------------------
(* Websites, URLs and API payloads *)

Sites == <<"skyscanner", "google", "booking">>

SiteName(site) ==
    CASE site = "skyscanner" -> "Skyscanner"
      [] site = "google" -> "Google Flights"
      [] site = "booking" -> "Booking.com"

SiteDomain(site) ==
    CASE site = "skyscanner" -> "skyscanner.com"
      [] site = "google" -> "google.com/travel/flights"
      [] site = "booking" -> "booking.com/flights"

\* query_template.format(origin, destination, date)
Query(site, p) == <<"site:", SiteDomain(site), p.origin, p.destination, p.depart_date>>

\* A URL is [scheme, host, shout, path]: host is the lower-case text after the
\* scheme, shout tells whether the URL spells it in upper case, path tells
\* hits apart.  The empty string is EmptyUrl.
EmptyUrl == [scheme |-> "", host |-> "", shout |-> FALSE, path |-> 0]

\* url.lower()
UrlLower(url) == [url EXCEPT !.shout = FALSE]

\* domain in url, for a domain in lower case
UrlContains(domain, url) == url.host = domain /\ ~url.shout

\* site_config.domain in url.lower()
DomainMatch(domain, url) == UrlContains(domain, UrlLower(url))

\* url.startswith(('http://', 'https://'))
ValidUrl(url) == url.scheme \in {"http://", "https://"}

DescriptionLimit == 200
Ellipsis == <<".", ".", ".">>

\* the description is not cut
TruncateNever(description) == description

Truncate(description) ==
    IF Len(description) > DescriptionLimit
    THEN SubSeq(description, 1, DescriptionLimit) \o Ellipsis
    ELSE description

\* one iteration of the loop of _parse_results: the results list after item
ParseItem(results, item, site) ==
    IF item.url = EmptyUrl THEN results
    ELSE LET price == ExtractPrice(item.title \o <<" ">> \o item.description)
         IN  IF DomainMatch(SiteDomain(site), item.url) /\ ValidUrl(item.url)
             THEN Append(results,
                         [title |-> item.title, url |-> item.url,
                          description |-> Truncate(item.description),
                          price |-> price, website |-> SiteName(site)])
             ELSE results

RECURSIVE ParseResultsUpTo(_, _, _)
ParseResultsUpTo(items, n, site) ==
    IF n = 0 THEN <<>>
    ELSE ParseItem(ParseResultsUpTo(items, n - 1, site), items[n], site)

ParseResults(items, site) == ParseResultsUpTo(items, Len(items), site)

-----------------------------------------------------------------------------
(* Responses *)

NoValue == [type |-> "None"]

ErrorResponse(kind) ==
    [type |-> "ErrorResponse", error |-> kind, sites_checked |-> None]

MaxResults == 10

HasPrice(r) == r.price # None /\ r.price # <<>>

\* lines 213-227 of search_flights: rank the parsed results and package them
Rank(results, site, p) ==
    LET results_with_price == SelectSeq(results, LAMBDA r : HasPrice(r))
        results_without_price == SelectSeq(results, LAMBDA r : ~HasPrice(r))
        sorted == SortedBy(results_with_price,
                           [k \in 1..Len(results_with_price) |->
                               ParsePrice(results_with_price[k].price)])
        final_results == Take(sorted \o results_without_price, MaxResults)
    IN  [type |-> "SearchResponse",
         website |-> SiteName(site),
         query |-> Query(site, p),
         results |-> final_results,
         cheapest |-> IF sorted # <<>> THEN sorted[1] ELSE NoValue,
         count |-> Len(final_results)]

\* lines 279-307 of search_all_sites, for a non-empty all_results
Compare(all) ==
    LET best_deal == all[MinIndex([k \in 1..Len(all) |->
                                      ParsePrice(all[k].cheapest.price)])]
        summary == [k \in 1..Len(all) |->
                       [website |-> all[k].website,
                        cheapest_price |-> all[k].cheapest.price,
                        url |-> all[k].cheapest.url,
                        is_best |-> all[k].website = best_deal.website]]
        comparison == SortedBy(summary,
                               [k \in 1..Len(summary) |->
                                   ParsePrice(summary[k].cheapest_price)])
    IN  [type |-> "ComparisonResponse",
         mode |-> "comparison",
         sites_checked |-> Len(all),
         comparison |-> comparison,
         best_deal |-> [website |-> best_deal.website,
                        price |-> best_deal.cheapest.price,
                        url |-> best_deal.cheapest.url,
                        title |-> best_deal.cheapest.title],
         all_results |-> all]

\* lines 272-307 of search_all_sites
Aggregate(all) ==
    IF all = <<>>
    THEN [type |-> "ErrorResponse", error |-> "NoResultsAnySite",
          sites_checked |-> <<"Skyscanner", "Google Flights", "Booking.com">>]
    ELSE Compare(all)

-----------------------------------------------------------------------------
(* Inputs *)

JFK == <<"j", "f", "k">>
LHR == <<"L", "H", "R">>

\* a hit of the API's web.results
Hit(title, description, host, scheme) ==
    [title |-> title, description |-> description,
     url |-> [scheme |-> scheme, host |-> host, shout |-> FALSE, path |-> 0]]

\* the hits of a payload have different URLs
Numbered(items) ==
    [k \in 1..Len(items) |->
        IF items[k].url = EmptyUrl THEN items[k]
        ELSE [items[k] EXCEPT !.url.path = k]]

T300 == <<Dollar, "3", "0", "0">>
T250 == <<Dollar, "2", "5", "0">>
T250c == <<Dollar, "2", "5", "0", ".", "0", "0">>
TComma == <<Dollar, ",">>
TPlain == <<"f", "l", "y">>

\* titles of the hits the comparison is tried on: two prices, the lower one
\* written in two ways, and a price that is no number
CliTitles == {T300, T250, T250c, TComma}

RECURSIVE SeqsUpTo(_, _)
SeqsUpTo(S, n) ==
    IF n = 0 THEN {<<>>}
    ELSE LET shorter == SeqsUpTo(S, n - 1)
         IN  shorter \cup {Append(s, x) : s \in {t \in shorter : Len(t) = n - 1},
                                          x \in S}

MaxCliHits == 1

\* payloads of the CLI runs: hits on the domain of the site that is asked
CliPayloads(site) ==
    {Numbered(l) :
        l \in SeqsUpTo({Hit(t, <<>>, SiteDomain(site), "https://") : t \in CliTitles},
                       MaxCliHits)}

T500 == <<Dollar, "5", "0", "0">>
T200 == <<Dollar, "2", "0", "0">>
T200c == <<Dollar, "2", "0", "0", ".", "0", "0">>
D150 == <<Pound, "1", "5", "0">>

Filler(n) == [k \in 1..n |-> "x"]

\* descriptions: none, one with a price, and long ones around the limit
Descriptions ==
    {<<>>, D150}
    \cup {Filler(n) : n \in DescriptionLimit - 1..DescriptionLimit + MaxDescPad}

\* URLs: on the domain, on it in upper case, on it without http(s), on
\* another site's domain, elsewhere, and none
UrlsFor(site) ==
    {[scheme |-> "https://", host |-> SiteDomain(site), shout |-> FALSE, path |-> 0],
     [scheme |-> "http://", host |-> SiteDomain(site), shout |-> TRUE, path |-> 0],
     [scheme |-> "ftp://", host |-> SiteDomain(site), shout |-> FALSE, path |-> 0],
     [scheme |-> "https://",
      host |-> SiteDomain(IF site = "google" THEN "booking" ELSE "google"),
      shout |-> FALSE, path |-> 0],
     [scheme |-> "https://", host |-> "example.com", shout |-> FALSE, path |-> 0],
     EmptyUrl}

AnyHits(site) ==
    [title : {T200, TComma, TPlain}, description : Descriptions, url : UrlsFor(site)]

PricedTitles == {T500, T200, T200c, TComma, TPlain}

GoodHits(site) == {Hit(t, <<>>, SiteDomain(site), "https://") : t \in PricedTitles}

TitleCycle == <<T500, TPlain, T200, T200c>>

\* a long payload: its titles run through TitleCycle from offset, by step
LongPayload(site, n, offset, step) ==
    [k \in 1..n |->
        Hit(TitleCycle[((k * step + offset) % Len(TitleCycle)) + 1], <<>>,
            SiteDomain(site), "https://")]

\* payloads of the direct calls of search_flights: one hit of any kind, a
\* few hits that pass the filter, and more hits than are returned
ApiPayloads(site) ==
    {Numbered(l) : l \in SeqsUpTo(AnyHits(site), 1)}
    \cup {Numbered(l) : l \in SeqsUpTo(GoodHits(site), MaxHits)}
    \cup {Numbered(LongPayload(site, n, o, st)) :
             n \in MaxResults - 1..MaxResults + MaxSurplus,
             o \in 0..Len(TitleCycle) - 1, st \in {1, 3}}

Argv ==
    [n : {4}, origin : {JFK, <<"j", "f", "k", " ">>, <<"j", "1", "k">>},
     destination : {LHR},
     date : {[parses |-> FALSE, day |-> 0]} \cup [parses : {TRUE}, day : {-1, 0, 1}],
     website : {"skyscanner", "GOOGLE", "booking", "compare", "xyz"}]
    \cup [n : {2, 3}, origin : {JFK}, destination : {LHR},
          date : {[parses |-> TRUE, day |-> 1]}, website : {""}]

\* sys.argv[4].lower()
Lower(w) == IF w = "GOOGLE" THEN "google" ELSE w

-----------------------------------------------------------------------------
(* The CLI run *)

Running == [type |-> "running"]

Init ==
    /\ pc = "main"
    /\ argv \in Argv
    /\ api_key \in BOOLEAN
    /\ today = 0
    /\ upstream = NoValue
    /\ params = NoValue
    /\ idx = 0
    /\ log = <<>>
    /\ in_flight = 0
    /\ max_flight = 0
    /\ parsed = <<>>
    /\ last = NoValue
    /\ all_results = <<>>
    /\ result = Running
    /\ stdout = NoValue
    /\ exit_code = -1
    /\ outcomes = <<>>
    /\ caller = "main"

\* print(json.dumps(...)); sys.exit(code)
Exit(out, code) ==
    /\ stdout' = out
    /\ exit_code' = code
    /\ pc' = "exit"

website_str == IF argv.n > 3 THEN Lower(argv.website) ELSE "skyscanner"

main_params == NewFlightSearchParams(argv.origin, argv.destination, argv.date,
                                     website_str, today)

\* main, lines 377-395
MainUsage ==
    /\ pc = "main"
    /\ argv.n < 3
    /\ Exit([type |-> "usage"], 1)
    /\ UNCHANGED <<argv, api_key, today, upstream, params, idx, log, in_flight,
                   max_flight, parsed, last, all_results, result, caller,
                   outcomes>>

\* main, lines 402-411
MainInvalidWebsite ==
    /\ pc = "main"
    /\ argv.n >= 3
    /\ website_str \notin WebsiteName
    /\ Exit(ErrorResponse("InvalidWebsite"), 1)
    /\ UNCHANGED <<argv, api_key, today, upstream, params, idx, log, in_flight,
                   max_flight, parsed, last, all_results, result, caller,
                   outcomes>>

\* main, lines 413-427
MainInvalidParams ==
    /\ pc = "main"
    /\ argv.n >= 3
    /\ website_str \in WebsiteName
    /\ main_params.type = "ValidationError"
    /\ Exit(ErrorResponse("InvalidParameters"), 1)
    /\ UNCHANGED <<argv, api_key, today, upstream, params, idx, log, in_flight,
                   max_flight, parsed, last, all_results, result, caller,
                   outcomes>>

\* main, lines 431 and 441-447: FlightSearcher() raises ValueError
MainMissingCredential ==
    /\ pc = "main"
    /\ argv.n >= 3
    /\ website_str \in WebsiteName
    /\ main_params.type = "FlightSearchParams"
    /\ ~api_key
    /\ params' = main_params
    /\ Exit(ErrorResponse("MissingCredential"), 1)
    /\ UNCHANGED <<argv, api_key, today, upstream, idx, log, in_flight,
                   max_flight, parsed, last, all_results, result, caller,
                   outcomes>>

\* main, lines 431-436, up to the call of search_flights
MainSearchFlights ==
    /\ pc = "main"
    /\ argv.n >= 3
    /\ website_str \in WebsiteName \ {"compare"}
    /\ main_params.type = "FlightSearchParams"
    /\ api_key
    /\ params' = main_params
    /\ caller' = "main"
    /\ pc' = "search_flights"
    /\ UNCHANGED <<argv, api_key, today, upstream, idx, log, in_flight,
                   max_flight, parsed, last, all_results, result, stdout,
                   exit_code,
                   outcomes>>

\* main, lines 431-434, and search_all_sites up to its loop
MainSearchAllSites ==
    /\ pc = "main"
    /\ argv.n >= 3
    /\ website_str = "compare"
    /\ main_params.type = "FlightSearchParams"
    /\ api_key
    /\ params' = main_params
    /\ caller' = "search_all_sites"
    /\ idx' = 1
    /\ all_results' = <<>>
    /\ pc' = "loop_call"
    /\ UNCHANGED <<argv, api_key, today, upstream, log, in_flight, max_flight,
                   parsed, last, result, stdout, exit_code,
                   outcomes>>

-----------------------------------------------------------------------------
(* search_flights *)

RequestEvent(site) == [ev |-> "request", site |-> site]
SleepEvent == [ev |-> "sleep", site |-> ""]

FailureKinds == {"timeout", "connection_error", "http_error", "invalid_json",
                 "malformed"}

\* what the API can do with a request for site
Answers(site) ==
    [kind : FailureKinds, items : {<<>>}]
    \cup [kind : {"ok"}, items : IF caller = "api" THEN ApiPayloads(site)
                                 ELSE CliPayloads(site)]

\* search_flights returns value; control goes back to the caller
Return(value) ==
    /\ last' = value
    /\ pc' = "returned"

\* lines 177-181
SearchFlightsCompare ==
    /\ pc = "search_flights"
    /\ params.website = "compare"
    /\ Return(ErrorResponse("UseComparisonMode"))
    /\ UNCHANGED <<argv, api_key, today, upstream, params, idx, log, in_flight,
                   max_flight, parsed, all_results, result, stdout, exit_code,
                   caller,
                   outcomes>>

\* lines 183-206: requests.get is sent
SearchFlightsRequest ==
    /\ pc = "search_flights"
    /\ params.website # "compare"
    /\ \E a \in Answers(params.website) : upstream' = a
    /\ log' = Append(log, RequestEvent(params.website))
    /\ in_flight' = in_flight + 1
    /\ max_flight' = IF in_flight + 1 > max_flight THEN in_flight + 1 ELSE max_flight
    /\ pc' = "await"
    /\ UNCHANGED <<argv, api_key, today, params, idx, parsed, last, all_results,
                   result, stdout, exit_code, caller,
                   outcomes>>

Answered(value, results) ==
    /\ in_flight' = in_flight - 1
    /\ parsed' = results
    /\ Return(value)
    /\ UNCHANGED <<argv, api_key, today, upstream, params, idx, log, max_flight,
                   all_results, result, stdout, exit_code, caller,
                   outcomes>>

\* the Timeout is caught by the handler of RequestException
ResponseTimeoutAsNetworkError ==
    /\ pc = "await"
    /\ upstream.kind = "timeout"
    /\ Answered(ErrorResponse("NetworkError"), <<>>)

\* lines 229-233
ResponseTimeout ==
    /\ pc = "await"
    /\ upstream.kind = "timeout"
    /\ Answered(ErrorResponse("Timeout"), <<>>)

\* lines 234-238: requests.get raises a RequestException that is no Timeout
ResponseConnectionError ==
    /\ pc = "await"
    /\ upstream.kind = "connection_error"
    /\ Answered(ErrorResponse("NetworkError"), <<>>)

\* lines 207 and 234-238: raise_for_status raises HTTPError
ResponseHttpError ==
    /\ pc = "await"
    /\ upstream.kind = "http_error"
    /\ Answered(ErrorResponse("NetworkError"), <<>>)

\* line 208: response.json() raises.  What it raises is
\* requests.exceptions.JSONDecodeError, a RequestException, with requests
\* 2.27 and later, and a plain ValueError before
ResponseInvalidJson ==
    /\ pc = "await"
    /\ upstream.kind = "invalid_json"
    /\ \E kind \in {"NetworkError", "UnexpectedError"} :
           Answered(ErrorResponse(kind), <<>>)

\* lines 211 and 239-243: the payload is JSON of another shape, and
\* _parse_results raises (AttributeError, TypeError)
ResponseMalformed ==
    /\ pc = "await"
    /\ upstream.kind = "malformed"
    /\ Answered(ErrorResponse("UnexpectedError"), <<>>)

\* lines 207-227
ResponseOk ==
    /\ pc = "await"
    /\ upstream.kind = "ok"
    /\ LET results == ParseResults(upstream.items, params.website)
       IN  Answered(Rank(results, params.website, params), results)

-----------------------------------------------------------------------------
(* search_all_sites and the rest of main *)

\* main, lines 436-439: an ErrorResponse is printed like a SearchResponse,
\* and main returns
MainPrint ==
    /\ pc = "returned"
    /\ caller = "main"
    /\ result' = last
    /\ Exit(last, 0)
    /\ UNCHANGED <<argv, api_key, today, upstream, params, idx, log, in_flight,
                   max_flight, parsed, last, all_results, caller,
                   outcomes>>

\* lines 259-260
LoopSleep ==
    /\ pc = "loop_sleep"
    /\ log' = Append(log, SleepEvent)
    /\ pc' = "loop_call"
    /\ UNCHANGED <<argv, api_key, today, upstream, params, idx, in_flight,
                   max_flight, parsed, last, all_results, result, stdout,
                   exit_code, caller,
                   outcomes>>

search_params == NewFlightSearchParams(params.origin, params.destination,
                                     params.depart_date, Sites[idx], today)

\* lines 261-267: the parameters of the site are built and search_flights
\* is called
LoopCall ==
    /\ pc = "loop_call"
    /\ search_params.type = "FlightSearchParams"
    /\ params' = search_params
    /\ pc' = "search_flights"
    /\ UNCHANGED <<argv, api_key, today, upstream, idx, log, in_flight,
                   max_flight, parsed, last, all_results, result, stdout,
                   exit_code, caller,
                   outcomes>>

\* lines 261-266: the validators run again, validate_date against the
\* clock as it is now; the ValidationError, a ValueError, leaves
\* search_all_sites and is caught in main, lines 441-447
LoopCallRaises ==
    /\ pc = "loop_call"
    /\ search_params.type = "ValidationError"
    /\ result' = [type |-> "raised", exception |-> "ValidationError"]
    /\ Exit(ErrorResponse("ValidationError"), 1)
    /\ UNCHANGED <<argv, api_key, today, upstream, params, idx, log, in_flight,
                   max_flight, parsed, last, all_results, caller,
                   outcomes>>

Retained(value) == value.type = "SearchResponse" /\ value.cheapest # NoValue

\* lines 269-270 and the next turn of the loop
LoopCollect ==
    /\ pc = "returned"
    /\ caller = "search_all_sites"
    /\ all_results' = IF Retained(last) THEN Append(all_results, last)
                      ELSE all_results
    /\ outcomes' = Append(outcomes, last)
    /\ idx' = idx + 1
    /\ pc' = IF idx < Len(Sites) THEN "loop_sleep" ELSE "aggregate"
    /\ UNCHANGED <<argv, api_key, today, upstream, params, log, in_flight,
                   max_flight, parsed, last, result, stdout, exit_code, caller>>

\* lines 272-307, and main, line 439
Finish ==
    /\ pc = "aggregate"
    /\ result' = Aggregate(all_results)
    /\ Exit(Aggregate(all_results), 0)
    /\ UNCHANGED <<argv, api_key, today, upstream, params, idx, log, in_flight,
                   max_flight, parsed, last, all_results, caller,
                   outcomes>>

\* midnight passes while the program runs
Tick ==
    /\ pc \notin {"exit", "done"}
    /\ today = 0
    /\ today' = 1
    /\ UNCHANGED <<pc, argv, api_key, upstream, params, idx, log, in_flight,
                   max_flight, parsed, last, all_results, result, stdout,
                   exit_code, caller,
                   outcomes>>

Next ==
    \/ MainUsage
    \/ MainInvalidWebsite
    \/ MainInvalidParams
    \/ MainMissingCredential
    \/ MainSearchFlights
    \/ MainSearchAllSites
    \/ SearchFlightsRequest
    \/ ResponseTimeout
    \/ ResponseConnectionError
    \/ ResponseHttpError
    \/ ResponseInvalidJson
    \/ ResponseMalformed
    \/ ResponseOk
    \/ MainPrint
    \/ LoopSleep
    \/ LoopCall
    \/ LoopCallRaises
    \/ LoopCollect
    \/ Finish
    \/ Tick

Spec == Init /\ [][Next]_vars

-----------------------------------------------------------------------------
(* search_flights called on its own *)

ApiParams ==
    {NewFlightSearchParams(JFK, LHR, [parses |-> TRUE, day |-> 1], w, 0) :
        w \in WebsiteName}

InitSearch ==
    /\ pc = "search_flights"
    /\ caller = "api"
    /\ params \in ApiParams
    /\ argv = <<>>
    /\ api_key = TRUE
    /\ today = 0
    /\ upstream = NoValue
    /\ idx = 0
    /\ log = <<>>
    /\ in_flight = 0
    /\ max_flight = 0
    /\ parsed = <<>>
    /\ last = NoValue
    /\ all_results = <<>>
    /\ result = Running
    /\ stdout = NoValue
    /\ exit_code = -1
    /\ outcomes = <<>>

\* the caller has the value search_flights returned
ApiReturn ==
    /\ pc = "returned"
    /\ caller = "api"
    /\ result' = last
    /\ pc' = "done"
    /\ UNCHANGED <<argv, api_key, today, upstream, params, idx, log, in_flight,
                   max_flight, parsed, last, all_results, stdout, exit_code,
                   caller,
                   outcomes>>

NextSearch ==
    \/ SearchFlightsCompare
    \/ SearchFlightsRequest
    \/ ResponseTimeout
    \/ ResponseConnectionError
    \/ ResponseHttpError
    \/ ResponseInvalidJson
    \/ ResponseMalformed
    \/ ResponseOk
    \/ ApiReturn

SpecSearch == InitSearch /\ [][NextSearch]_vars

-----------------------------------------------------------------------------
(* FlightSearchParams constructed on its own *)

CodeAlphabet == {"j", "K", "1", " ", LongS}

CodeStrings == StringsUpTo(CodeAlphabet, MaxCodeLen) \cup {JFK, <<"j", "f", "k", " ">>}

Tomorrow == [parses |-> TRUE, day |-> 1]

InitParams ==
    /\ pc = "construct"
    /\ argv \in [origin : CodeStrings, destination : {LHR}, date : {Tomorrow}]
                \cup [origin : {JFK}, destination : CodeStrings, date : {Tomorrow}]
    /\ caller = "api"
    /\ params = NoValue
    /\ api_key = TRUE
    /\ today = 0
    /\ upstream = NoValue
    /\ idx = 0
    /\ log = <<>>
    /\ in_flight = 0
    /\ max_flight = 0
    /\ parsed = <<>>
    /\ last = NoValue
    /\ all_results = <<>>
    /\ result = Running
    /\ stdout = NoValue
    /\ exit_code = -1
    /\ outcomes = <<>>

\* FlightSearchParams(origin=..., destination=..., depart_date=...)
Construct ==
    /\ pc = "construct"
    /\ params' = NewFlightSearchParams(argv.origin, argv.destination, argv.date,
                                       "skyscanner", today)
    /\ pc' = "done"
    /\ UNCHANGED <<argv, api_key, today, upstream, idx, log, in_flight,
                   max_flight, parsed, last, all_results, result, stdout,
                   exit_code, caller,
                   outcomes>>

NextParams == Construct

SpecParams == InitParams /\ [][NextParams]_vars

-----------------------------------------------------------------------------
(* _extract_price called on its own *)

PriceAlphabet == {Dollar, Pound, Euro, "2", ",", ".", "x"}

\* "Flights from $200, also listed at <pound>150"
ExampleBoth ==
    <<"F","l","i","g","h","t","s"," ","f","r","o","m"," ",Dollar,"2","0","0",",",
      " ","a","l","s","o"," ","l","i","s","t","e","d"," ","a","t"," ",
      Pound,"1","5","0">>

\* "at <pound>150, from $200": the pound amount comes first in the text
ExamplePoundFirst ==
    <<"a","t"," ",Pound,"1","5","0",","," ","f","r","o","m"," ",Dollar,"2","0","0">>

Texts == StringsUpTo(PriceAlphabet, MaxTextLen)
         \cup {ExampleBoth, ExamplePoundFirst, D150,
               <<Dollar, "1", ",", "2", "3", "4", ".", "5", "6">>}

InitExtract ==
    /\ pc = "extract"
    /\ argv \in Texts
    /\ caller = "api"
    /\ params = NoValue
    /\ api_key = TRUE
    /\ today = 0
    /\ upstream = NoValue
    /\ idx = 0
    /\ log = <<>>
    /\ in_flight = 0
    /\ max_flight = 0
    /\ parsed = <<>>
    /\ last = NoValue
    /\ all_results = <<>>
    /\ result = Running
    /\ stdout = NoValue
    /\ exit_code = -1
    /\ outcomes = <<>>

\* _extract_price(text)
Extract ==
    /\ pc = "extract"
    /\ result' = ExtractPrice(argv)
    /\ pc' = "done"
    /\ UNCHANGED <<argv, api_key, today, upstream, params, idx, log, in_flight,
                   max_flight, parsed, last, all_results, stdout, exit_code,
                   caller,
                   outcomes>>

NextExtract == Extract

SpecExtract == InitExtract /\ [][NextExtract]_vars

-----------------------------------------------------------------------------
(* Properties *)

\* the run got past the checks of the arguments in main
PastValidation == params # NoValue

IsFailure(v) == v.type = "ErrorResponse"
IsSuccess(v) == v.type \in {"SearchResponse", "ComparisonResponse"}

\* C1: a CLI run with at least 3 arguments, a valid site and valid origin,
\* destination and date that prints an error object exits with status 1,
\* and a run exits with status 0 only when it printed a success result.
C1_ExitStatus ==
    (pc = "exit" /\ PastValidation) =>
        /\ IsFailure(stdout) => exit_code = 1
        /\ exit_code = 0 => IsSuccess(stdout)

\* the characters of s are ASCII letters, 3 of them
ThreeLetters(s) == Len(s) = 3 /\ \A k \in 1..3 : IsAsciiLetter(s[k])

FieldAccepts(field) ==
    LET trimmed == StrStrip(argv[field])
    IN  IF ThreeLetters(trimmed)
        THEN IF params.type = "FlightSearchParams"
             THEN params[field] = StrUpper(trimmed)
             ELSE params.errors[field] = ""
        ELSE /\ params.type = "ValidationError"
             /\ params.errors[field] # ""

\* C2: FlightSearchParams accepts an origin or destination exactly when the
\* string, stripped of surrounding whitespace, is 3 ASCII letters, and then
\* stores the stripped upper-case form ("jfk " is stored as "JFK"); for any
\* other string the construction fails with an error for that field.
C2_AirportCode ==
    pc = "done" => FieldAccepts("origin") /\ FieldAccepts("destination")

Symbols == {Dollar, Pound, Euro}

\* a currency symbol directly followed by digits with optional thousands
\* commas between them, and optional two-decimal cents
IsAmount(s) ==
    /\ Len(s) >= 2
    /\ s[1] \in Symbols
    /\ s[2] \in Digits
    /\ LET whole == IF Len(s) > 3 /\ s[Len(s) - 2] = "." THEN Len(s) - 3 ELSE Len(s)
       IN  /\ \A k \in 2..whole : IsDigitOrComma(s[k])
           /\ s[whole] \in Digits
           /\ whole < Len(s) => s[Len(s) - 1] \in Digits /\ s[Len(s)] \in Digits

\* the amounts that start with sym, as substrings of text
AmountsIn(sym, text) ==
    {<<p, q>> \in (1..Len(text)) \X (1..Len(text)) :
        p < q /\ text[p] = sym /\ IsAmount(SubSeq(text, p, q))}

\* the symbol the result must start with: the first of $, pound, euro that
\* has an amount in the text
FirstSymbol(text) ==
    IF AmountsIn(Dollar, text) # {} THEN Dollar
    ELSE IF AmountsIn(Pound, text) # {} THEN Pound
    ELSE IF AmountsIn(Euro, text) # {} THEN Euro
    ELSE ""

\* C3: _extract_price returns none when the text has no currency symbol
\* followed by an amount; otherwise a symbol directly followed by digits with
\* optional thousands commas and optional cents, of the first $ amount if
\* there is one, else of the first pound amount, else of the first euro
\* amount; "Flights from $200, also listed at <pound>150" gives "$200" and
\* a text with only "<pound>150" gives "<pound>150".
C3_ExtractPrice ==
    pc = "done" =>
        /\ FirstSymbol(argv) = "" => result = None
        /\ FirstSymbol(argv) # "" =>
               /\ IsAmount(result)
               /\ result[1] = FirstSymbol(argv)
               /\ \E a \in AmountsIn(result[1], argv) :
                      /\ SubSeq(argv, a[1], a[2]) = result
                      /\ \A b \in AmountsIn(result[1], argv) : a[1] <= b[1]
        /\ argv = ExampleBoth => result = T200
        /\ argv = D150 => result = D150

\* the hit a parsed result was made from
ItemOf(r) == CHOOSE item \in {upstream.items[k] : k \in 1..Len(upstream.items)} :
                 item.url = r.url

Searched == pc \in {"returned", "done"} /\ upstream # NoValue /\ upstream.kind = "ok"

\* C4: every FlightResult of _parse_results has a description of at most
\* 200 characters.
C4_Description200 ==
    Searched => \A k \in 1..Len(parsed) : Len(parsed[k].description) <= 200

\* C4, amended: every FlightResult of _parse_results has a description of at
\* most 203 characters: the hit's description when that has at most 200
\* characters, else its first 200 characters followed by "...".
C4_Description203 ==
    Searched =>
        \A k \in 1..Len(parsed) :
            LET raw == ItemOf(parsed[k]).description
                got == parsed[k].description
            IN  /\ Len(got) <= 203
                /\ Len(raw) <= 200 => got = raw
                /\ Len(raw) > 200 =>
                       got = SubSeq(raw, 1, 200) \o <<".", ".", ".">>

\* a description longer than the limit was cut
C4_Witness ==
    /\ Searched
    /\ \E k \in 1..Len(parsed) :
           /\ Len(ItemOf(parsed[k]).description) > 200
           /\ Len(parsed[k].description) = 203

Min(a, b) == IF a < b THEN a ELSE b

KeyOf(r) == ParsePrice(r.price)

Priced(R) == {i \in 1..Len(R) : HasPrice(R[i])}
Unpriced(R) == {i \in 1..Len(R) : ~HasPrice(R[i])}

\* how many priced results of R rank before R[i]: those of lower value, and
\* those of equal value that come earlier in R
RankOf(R, i) ==
    Cardinality({j \in Priced(R) :
                    \/ NumLess(KeyOf(R[j]), KeyOf(R[i]))
                    \/ NumEq(KeyOf(R[j]), KeyOf(R[i])) /\ j < i})

\* the ranked list, element by element: priced results by rank, then the unpriced
Expected(R, k) ==
    IF k <= Cardinality(Priced(R))
    THEN R[CHOOSE i \in Priced(R) : RankOf(R, i) = k - 1]
    ELSE R[CHOOSE i \in Unpriced(R) :
               Cardinality({j \in Unpriced(R) : j < i})
                   = k - Cardinality(Priced(R)) - 1]

\* C5: the results of a successful single-site search are the priced results
\* in ascending order of numeric price, equal prices in their original order,
\* then the unpriced results in their original order, cut to the first 10;
\* count is the length of that list; cheapest is the first priced result, or
\* none when no result has a price.
C5_Ranking ==
    (Searched /\ last.type = "SearchResponse") =>
        /\ Len(last.results) = Min(Len(parsed), 10)
        /\ \A k \in 1..Len(last.results) : last.results[k] = Expected(parsed, k)
        /\ last.count = Len(last.results)
        /\ last.cheapest = IF Priced(parsed) = {} THEN NoValue
                           ELSE Expected(parsed, 1)

PricesOf(R) == [k \in 1..Len(R) |-> R[k].price]

\* prices [$500, $200, none, $200] come out as [$200 (first), $200 (second),
\* $500, none]
C5_Witness ==
    /\ Searched
    /\ last.type = "SearchResponse"
    /\ PricesOf(parsed) = <<T500, T200, None, T200>>
    /\ PricesOf(last.results) = <<T200, T200, T500, None>>
    /\ [k \in 1..4 |-> last.results[k].url.path] = <<2, 4, 1, 3>>
    /\ last.cheapest = parsed[2]

\* more than 10 results were parsed and 10 returned
C5_Truncated ==
    Searched /\ last.type = "SearchResponse" /\ Len(parsed) > 10 /\ last.count = 10

CompareRun == pc = "exit" /\ caller = "search_all_sites"

CompareDone == CompareRun /\ result.type = "ComparisonResponse"

\* the outcomes of the sites that gave a priced cheapest result
RetainedOutcomes == SelectSeq(outcomes, Retained)

SiteNames == <<"Skyscanner", "Google Flights", "Booking.com">>
SiteRank(name) == CHOOSE k \in 1..3 : SiteNames[k] = name

CheapestKey(o) == ParsePrice(o.cheapest.price)

\* C6: when at least one site is retained, best_deal is taken from the
\* retained outcome whose cheapest price has the least numeric value, and of
\* several retained sites with that value from the one that is earliest in
\* the order Skyscanner, Google Flights, Booking.com.
C6_BestDeal ==
    CompareDone =>
        LET all == RetainedOutcomes
        IN  \E k \in 1..Len(all) :
                /\ result.best_deal = [website |-> all[k].website,
                                       price |-> all[k].cheapest.price,
                                       url |-> all[k].cheapest.url,
                                       title |-> all[k].cheapest.title]
                /\ \A j \in 1..Len(all) :
                       /\ NumLeq(CheapestKey(all[k]), CheapestKey(all[j]))
                       /\ NumEq(CheapestKey(all[k]), CheapestKey(all[j])) =>
                              SiteRank(all[k].website) <= SiteRank(all[j].website)

\* two retained sites share the least price, and the earlier one is the best
C6_Witness ==
    /\ CompareDone
    /\ \E j, k \in 1..Len(RetainedOutcomes) :
           /\ j < k
           /\ NumEq(CheapestKey(RetainedOutcomes[j]), CheapestKey(RetainedOutcomes[k]))
           /\ \A i \in 1..Len(RetainedOutcomes) :
                  NumLeq(CheapestKey(RetainedOutcomes[j]), CheapestKey(RetainedOutcomes[i]))
           /\ \A i \in 1..j - 1 :
                  NumLess(CheapestKey(RetainedOutcomes[j]), CheapestKey(RetainedOutcomes[i]))
           /\ result.best_deal.website = RetainedOutcomes[j].website

\* C7: a site whose search returns a failure, or a success without a priced
\* result, is dropped and does not make the comparison fail: the result of
\* search_all_sites is the failure "no results on any site", with the three
\* site names, if and only if none of the three sites gave a priced cheapest
\* result, and a ComparisonResponse otherwise.
C7_DroppedSites ==
    CompareRun =>
        /\ Len(outcomes) = 3
        /\ IF RetainedOutcomes = <<>>
           THEN result = [type |-> "ErrorResponse", error |-> "NoResultsAnySite",
                          sites_checked |-> SiteNames]
           ELSE result.type = "ComparisonResponse"

\* C8: every run of search_all_sites issues exactly one request per site, to
\* Skyscanner, then Google Flights, then Booking.com, whatever came of the
\* earlier requests, with a delay between successive requests and none
\* before the first or after the last, and never more than one request in
\* flight.
C8_RequestSequence ==
    /\ in_flight <= 1
    /\ CompareRun =>
           log = <<RequestEvent("skyscanner"), SleepEvent,
                   RequestEvent("google"), SleepEvent,
                   RequestEvent("booking")>>

RowKey(row) == ParsePrice(row.cheapest_price)

\* C9: in a ComparisonResponse the comparison has one row for each retained
\* site and no other, sites_checked is the number of rows, from 1 to 3, the
\* rows are in ascending order of numeric cheapest price, and is_best holds
\* of one row only: the row of best_deal's site, which is the first row.
C9_Comparison ==
    CompareDone =>
        LET rows == result.comparison
            all == RetainedOutcomes
        IN  /\ Len(rows) = Len(all)
            /\ result.sites_checked = Len(rows)
            /\ Len(rows) \in 1..3
            /\ result.all_results = all
            /\ \A k \in 1..Len(all) :
                   Cardinality({r \in 1..Len(rows) :
                                   rows[r].website = all[k].website}) = 1
            /\ \A r \in 1..Len(rows) :
                   \E k \in 1..Len(all) :
                       /\ rows[r].website = all[k].website
                       /\ rows[r].cheapest_price = all[k].cheapest.price
                       /\ rows[r].url = all[k].cheapest.url
            /\ \A r \in 1..Len(rows) - 1 : NumLeq(RowKey(rows[r]), RowKey(rows[r + 1]))
            /\ Cardinality({r \in 1..Len(rows) : rows[r].is_best}) = 1
            /\ \A r \in 1..Len(rows) :
                   rows[r].is_best <=> rows[r].website = result.best_deal.website
            /\ rows[1].is_best

CheapestPrices == [k \in 1..Len(outcomes) |->
                      IF Retained(outcomes[k]) THEN outcomes[k].cheapest.price
                      ELSE None]

\* cheapest $300 (Skyscanner), $250 (Google Flights), none (Booking.com):
\* 2 sites checked, Google Flights the best deal, rows Google Flights, Skyscanner
C9_Witness ==
    /\ CompareDone
    /\ CheapestPrices = <<T300, T250, None>>
    /\ result.sites_checked = 2
    /\ result.best_deal.website = "Google Flights"
    /\ [r \in 1..2 |-> result.comparison[r].website] = <<"Google Flights", "Skyscanner">>
    /\ [r \in 1..2 |-> result.comparison[r].is_best] = <<TRUE, FALSE>>

====
